---- MODULE Spec2Model ----
(***************************************************************************)
(* SPACShortModel (slidemodel): the escalation state machine               *)
(* (state/machine.py) and the batch evaluation cycle (cli/evaluate_once.py)*)
(* over the sqlite store (storage/db.py).                                  *)
(*                                                                         *)
(* SpecMachine    : next_state as a pure function, applied over a sequence *)
(*                  of evaluation cycles of one entity.                    *)
(* Spec           : the batch run over the configured companies.           *)
(* SpecConcurrent : overlapping runs on one database.                      *)
(* SpecExtract, SpecPick : features/facts_extract.py.                      *)
(* SpecCondition1, SpecCondition2, SpecCondition3 : features/condition*.py *)
(* SpecScan       : the condition 4 that a batch cycle uses.               *)
(***************************************************************************)
EXTENDS Integers, Sequences, FiniteSets, TLC

VARIABLES
    sm_inp,         \* EvaluationInput of the current evaluation (SpecMachine)
    sm_out,         \* result of next_state(sm_inp), "NONE" before it is applied
    companies,      \* companies.yaml as loaded by the run: company_id -> in_scope
    companies_tbl,  \* table companies: set of rows, key company_id
    model_state,    \* table model_state: set of rows, key (company_id, as_of)
    state_events,   \* table state_events: sequence of rows in id order
    today,          \* date.today() of the latest run, as a day number
    run_pc,         \* position of the batch run (see the actions)
    run_idx,        \* index in companies of the entity the loop is at
    runs,           \* number of batch runs started
    loc,            \* locals of the loop iteration in progress
    last,           \* summary of the last loop iteration that ended
    procs,          \* overlapping runs on one database: run -> its position
    fn_in,          \* arguments of the feature function under study
    fn_out          \* <<its result>>, <<>> before it is applied

sm_vars == <<sm_inp, sm_out>>
db_vars == <<companies_tbl, model_state, state_events>>
run_vars == <<companies, today, run_pc, run_idx, runs, loc, last>>
cc_vars == <<procs>>
fn_vars == <<fn_in, fn_out>>
vars == <<sm_inp, sm_out, companies, companies_tbl, model_state, state_events,
          today, run_pc, run_idx, runs, loc, last, procs, fn_in, fn_out>>

(***************************************************************************)
(* models/types.py, models/signals.py                                      *)
(***************************************************************************)
ModelState == {"IGNORE", "MONITOR", "TRACK", "TERMINAL"}

ConditionFlags ==
    [condition_1 : BOOLEAN, condition_2 : BOOLEAN,
     condition_3 : BOOLEAN, condition_4 : BOOLEAN]

EvaluationInput ==
    [in_scope : BOOLEAN, has_sufficient_data : BOOLEAN,
     prev_state : ModelState, flags : ConditionFlags]

(***************************************************************************)
(* state/machine.py                                                        *)
(***************************************************************************)
\* Mutant: the scope gate is missing.
next_state_no_scope_gate(inp) ==
    IF ~inp.has_sufficient_data THEN "MONITOR"
    ELSE IF ~inp.flags.condition_1 THEN "MONITOR"
    ELSE IF inp.prev_state = "MONITOR"
         THEN (IF inp.flags.condition_2 /\ inp.flags.condition_4
               THEN "TRACK" ELSE "MONITOR")
    ELSE IF inp.prev_state = "TRACK"
         THEN (IF inp.flags.condition_3 THEN "TERMINAL" ELSE "TRACK")
    ELSE IF inp.prev_state = "TERMINAL" THEN "TERMINAL"
    ELSE inp.prev_state

\* Mutant: the data-sufficiency gate is tested after the dispatch on prev_state.
next_state_late_data_gate(inp) ==
    IF ~inp.in_scope THEN "IGNORE"
    ELSE IF ~inp.flags.condition_1 THEN "MONITOR"
    ELSE IF inp.prev_state = "MONITOR"
         THEN (IF inp.flags.condition_2 /\ inp.flags.condition_4
               THEN "TRACK" ELSE "MONITOR")
    ELSE IF inp.prev_state = "TRACK"
         THEN (IF inp.flags.condition_3 THEN "TERMINAL" ELSE "TRACK")
    ELSE IF inp.prev_state = "TERMINAL" THEN "TERMINAL"
    ELSE IF ~inp.has_sufficient_data THEN "MONITOR"
    ELSE inp.prev_state

\* Mutant: the hard disqualifier only guards the MONITOR -> TRACK step.
next_state_gate_in_monitor_only(inp) ==
    IF ~inp.in_scope THEN "IGNORE"
    ELSE IF ~inp.has_sufficient_data THEN "MONITOR"
    ELSE IF inp.prev_state = "MONITOR"
         THEN (IF inp.flags.condition_1 /\ inp.flags.condition_2
                  /\ inp.flags.condition_4
               THEN "TRACK" ELSE "MONITOR")
    ELSE IF inp.prev_state = "TRACK"
         THEN (IF inp.flags.condition_3 THEN "TERMINAL" ELSE "TRACK")
    ELSE IF inp.prev_state = "TERMINAL" THEN "TERMINAL"
    ELSE inp.prev_state

\* Mutant: MONITOR -> TRACK on condition_2 OR condition_4.
next_state_track_on_either(inp) ==
    IF ~inp.in_scope THEN "IGNORE"
    ELSE IF ~inp.has_sufficient_data THEN "MONITOR"
    ELSE IF ~inp.flags.condition_1 THEN "MONITOR"
    ELSE IF inp.prev_state = "MONITOR"
         THEN (IF inp.flags.condition_2 \/ inp.flags.condition_4
               THEN "TRACK" ELSE "MONITOR")
    ELSE IF inp.prev_state = "TRACK"
         THEN (IF inp.flags.condition_3 THEN "TERMINAL" ELSE "TRACK")
    ELSE IF inp.prev_state = "TERMINAL" THEN "TERMINAL"
    ELSE inp.prev_state

\* Mutant: TRACK -> TERMINAL additionally requires condition_4.
next_state_terminal_needs_c4(inp) ==
    IF ~inp.in_scope THEN "IGNORE"
    ELSE IF ~inp.has_sufficient_data THEN "MONITOR"
    ELSE IF ~inp.flags.condition_1 THEN "MONITOR"
    ELSE IF inp.prev_state = "MONITOR"
         THEN (IF inp.flags.condition_2 /\ inp.flags.condition_4
               THEN "TRACK" ELSE "MONITOR")
    ELSE IF inp.prev_state = "TRACK"
         THEN (IF inp.flags.condition_3 /\ inp.flags.condition_4
               THEN "TERMINAL" ELSE "TRACK")
    ELSE IF inp.prev_state = "TERMINAL" THEN "TERMINAL"
    ELSE inp.prev_state

\* Mutant: from MONITOR, all of conditions 2, 3 and 4 lead to TERMINAL at
\* once.
next_state_monitor_skips_track(inp) ==
    IF ~inp.in_scope THEN "IGNORE"
    ELSE IF ~inp.has_sufficient_data THEN "MONITOR"
    ELSE IF ~inp.flags.condition_1 THEN "MONITOR"
    ELSE IF inp.prev_state = "MONITOR"
         THEN (IF inp.flags.condition_2 /\ inp.flags.condition_4
               THEN (IF inp.flags.condition_3 THEN "TERMINAL" ELSE "TRACK")
               ELSE "MONITOR")
    ELSE IF inp.prev_state = "TRACK"
         THEN (IF inp.flags.condition_3 THEN "TERMINAL" ELSE "TRACK")
    ELSE IF inp.prev_state = "TERMINAL" THEN "TERMINAL"
    ELSE inp.prev_state

\* Mutant: an entity at TERMINAL starts over at MONITOR.
next_state_terminal_resets(inp) ==
    IF ~inp.in_scope THEN "IGNORE"
    ELSE IF ~inp.has_sufficient_data THEN "MONITOR"
    ELSE IF ~inp.flags.condition_1 THEN "MONITOR"
    ELSE IF inp.prev_state = "MONITOR"
         THEN (IF inp.flags.condition_2 /\ inp.flags.condition_4
               THEN "TRACK" ELSE "MONITOR")
    ELSE IF inp.prev_state = "TRACK"
         THEN (IF inp.flags.condition_3 THEN "TERMINAL" ELSE "TRACK")
    ELSE IF inp.prev_state = "TERMINAL" THEN "MONITOR"
    ELSE inp.prev_state

next_state(inp) ==
    IF ~inp.in_scope THEN "IGNORE"
    ELSE IF ~inp.has_sufficient_data THEN "MONITOR"
    ELSE IF ~inp.flags.condition_1 THEN "MONITOR"
    ELSE IF inp.prev_state = "MONITOR"
         THEN (IF inp.flags.condition_2 /\ inp.flags.condition_4
               THEN "TRACK" ELSE "MONITOR")
    ELSE IF inp.prev_state = "TRACK"
         THEN (IF inp.flags.condition_3 THEN "TERMINAL" ELSE "TRACK")
    ELSE IF inp.prev_state = "TERMINAL" THEN "TERMINAL"
    ELSE inp.prev_state

(***************************************************************************)
(* Bounds of the batch model                                               *)
(***************************************************************************)
NumCompanies == 2
MaxDay == 2
MaxIterations == 6
MaxFilings == 2

Companies == 1 .. NumCompanies

(***************************************************************************)
(* storage/db.py                                                           *)
(* A model_state row carries company_id, as_of and state; its condition    *)
(* columns and details_json are never read back by the batch: the flags    *)
(* that are written are loc.flags at the WriteState step.                  *)
(***************************************************************************)
upsert_company(tbl, cid, in_scope) ==
    {r \in tbl : r.company_id # cid}
        \cup {[company_id |-> cid, in_scope |-> in_scope]}

\* SELECT state ... ORDER BY as_of DESC LIMIT 1; "NONE" is Python's None.
get_latest_state(ms, cid) ==
    LET rows == {r \in ms : r.company_id = cid}
    IN  IF rows = {} THEN "NONE"
        ELSE (CHOOSE r \in rows : \A q \in rows : q.as_of <= r.as_of).state

\* INSERT OR REPLACE on the primary key (company_id, as_of).
write_state(ms, rec) ==
    {r \in ms : ~(r.company_id = rec.company_id /\ r.as_of = rec.as_of)}
        \cup {rec}

\* INSERT with an autoincrement id: the position in the sequence.
write_event(ev, e) == Append(ev, e)

(***************************************************************************)
(* features/condition1.py, condition3.py, condition4.py: how the flags are *)
(* combined from the sub-signals. The arguments are the values returned by *)
(* the series helpers (_two_quarter_*, _flat_or_up, _burn_persists,        *)
(* find_keyword_snippet) on the fetched documents.                         *)
(***************************************************************************)
\* A variant of condition_1_from_facts without the operating-loss fallback of
\* lines 128-131 in the flag.
condition_1_from_facts_no_fallback(revenue_missing, rd, mf, olw) ==
    LET revenue_deceleration_2q == IF revenue_missing THEN FALSE ELSE rd
        margin_failure_2q == IF revenue_missing THEN FALSE ELSE mf
        operating_loss_worsening_2q == IF revenue_missing THEN olw ELSE FALSE
    IN  [revenue_deceleration_2q |-> revenue_deceleration_2q,
         margin_failure_2q |-> margin_failure_2q,
         operating_loss_worsening_2q |-> operating_loss_worsening_2q,
         condition_1 |-> (revenue_deceleration_2q \/ margin_failure_2q)]

condition_1_from_facts(revenue_missing, rd, mf, olw) ==
    LET revenue_deceleration_2q == IF revenue_missing THEN FALSE ELSE rd
        margin_failure_2q == IF revenue_missing THEN FALSE ELSE mf
        operating_loss_worsening_2q == IF revenue_missing THEN olw ELSE FALSE
    IN  [revenue_deceleration_2q |-> revenue_deceleration_2q,
         margin_failure_2q |-> margin_failure_2q,
         operating_loss_worsening_2q |-> operating_loss_worsening_2q,
         condition_1 |-> (revenue_deceleration_2q \/ margin_failure_2q
                            \/ operating_loss_worsening_2q)]

\* A variant of condition_3_from_facts without no_slope_improvement.
condition_3_from_facts_no_slope_gate(capex_up, rnd_up, burn, revenue_deceleration_2q, margin_failure_2q) ==
    LET discretionary_continues == capex_up \/ rnd_up
        cash_burn_persists == burn
    IN  discretionary_continues /\ cash_burn_persists

condition_3_from_facts(capex_up, rnd_up, burn, revenue_deceleration_2q, margin_failure_2q) ==
    LET discretionary_continues == capex_up \/ rnd_up
        cash_burn_persists == burn
        no_slope_improvement == revenue_deceleration_2q /\ margin_failure_2q
    IN  discretionary_continues /\ cash_burn_persists /\ no_slope_improvement

\* features/condition4.py. A filing text is one of three: one without any
\* keyword, one that holds a keyword as the lexicon spells it, and one that
\* holds it in another case.
FilingTexts == {"quarterly results", "entering a new market", "A New Market"}

KEYWORDS == {"new market"}

\* str.lower().
lower(text) == IF text = "A New Market" THEN "a new market" ELSE text

\* str.find(kw) != -1.
contains(text, kw) ==
    kw = "new market" /\ text \in {"entering a new market", "a new market"}

\* A variant of find_keyword_snippet that searches the text as it is.
find_keyword_snippet_case_sensitive(text) ==
    \E kw \in KEYWORDS : contains(text, kw)

\* Lines 28-37: whether a keyword is found (the hit is not None).
find_keyword_snippet(text) == \E kw \in KEYWORDS : contains(lower(text), kw)

condition_4_from_text(text, revenue_deceleration_2q, margin_failure_2q) ==
    LET hit == find_keyword_snippet(text)
        no_slope_improvement == revenue_deceleration_2q /\ margin_failure_2q
    IN  [initiative_detected |-> hit,
         condition_4 |-> (hit /\ no_slope_improvement)]

\* evaluate_once.py, lines 77-111: the scan of the recent 8-K filings.
\* filings[i] is the text of the i-th 8-K of the last 90 days; fail_at is
\* the fetch that raises: 0 the submissions list, i the text of filing i,
\* Len(filings) + 1 none.
Condition4Default == [initiative_detected |-> FALSE, condition_4 |-> FALSE]

\* The outcome of the scan: the c4 that stands at line 113, whether a fetch
\* raised (caught at line 106), and the number of fetches that were issued
\* (the submissions list, then one per filing text).
ScanOutcome(c4, raised, fetched) ==
    [initiative_detected |-> c4.initiative_detected,
     condition_4 |-> c4.condition_4, raised |-> raised, fetched |-> fetched]

RECURSIVE ScanFrom(_, _, _, _, _)
ScanFrom(filings, i, fail_at, rd, mf) ==
    IF i > Len(filings) THEN ScanOutcome(Condition4Default, FALSE, i)
    ELSE IF i = fail_at THEN ScanOutcome(Condition4Default, TRUE, i + 1)
    ELSE LET candidate == condition_4_from_text(filings[i], rd, mf)
         IN  IF candidate.initiative_detected
             THEN ScanOutcome(candidate, FALSE, i + 1)
             ELSE ScanFrom(filings, i + 1, fail_at, rd, mf)

ScanFilings(filings, fail_at, rd, mf) ==
    IF fail_at = 0 THEN ScanOutcome(Condition4Default, TRUE, 1)
    ELSE ScanFrom(filings, 1, fail_at, rd, mf)

FilingLists == UNION {[1 .. n -> FilingTexts] : n \in 0 .. MaxFilings}

(***************************************************************************)
(* SpecMachine: next_state applied over the evaluation cycles of an entity *)
(***************************************************************************)
NoFlags ==
    [condition_1 |-> FALSE, condition_2 |-> FALSE,
     condition_3 |-> FALSE, condition_4 |-> FALSE]

NoLoc ==
    [rd |-> FALSE, mf |-> FALSE, flags |-> NoFlags,
     scan_raised |-> FALSE, fetched |-> 0,
     persisted |-> "NONE", prev |-> "NONE", new_state |-> "NONE"]

NoLast ==
    [kind |-> "none", company_id |-> 0, persisted_before |-> "NONE",
     prev |-> "NONE", new_state |-> "NONE", scan_raised |-> FALSE,
     state_written |-> FALSE, event_written |-> FALSE]

BatchIdle ==
    /\ companies = [c \in Companies |-> TRUE]
    /\ companies_tbl = {}
    /\ model_state = {}
    /\ state_events = <<>>
    /\ today = 0
    /\ run_pc = "off"
    /\ run_idx = 0
    /\ runs = 0
    /\ loc = NoLoc
    /\ last = NoLast

\* No overlapping run, no feature function under study.
ConcurrentIdle == procs = <<>>

FeatureIdle ==
    /\ fn_in = <<>>
    /\ fn_out = <<>>

MachineInit ==
    /\ sm_inp \in EvaluationInput
    /\ sm_out = "NONE"
    /\ BatchIdle
    /\ ConcurrentIdle
    /\ FeatureIdle

\* One evaluation: the state machine is run on the input.
Apply ==
    /\ sm_out = "NONE"
    /\ sm_out' = next_state(sm_inp)
    /\ UNCHANGED <<sm_inp, db_vars, run_vars, cc_vars, fn_vars>>

\* The next cycle: the result is the entity's prev_state, the rest is fresh.
NextCycle ==
    /\ sm_out # "NONE"
    /\ \E s \in BOOLEAN, d \in BOOLEAN, f \in ConditionFlags :
          sm_inp' = [in_scope |-> s, has_sufficient_data |-> d,
                     prev_state |-> sm_out, flags |-> f]
    /\ sm_out' = "NONE"
    /\ UNCHANGED <<db_vars, run_vars, cc_vars, fn_vars>>

MachineNext == Apply \/ NextCycle

SpecMachine == MachineInit /\ [][MachineNext]_vars

Applied == sm_out # "NONE"

AllFlags(inp) ==
    /\ inp.flags.condition_1 /\ inp.flags.condition_2
    /\ inp.flags.condition_3 /\ inp.flags.condition_4

\* Position in the escalation order MONITOR < TRACK < TERMINAL.
Rank(s) ==
    CASE s = "MONITOR" -> 1 [] s = "TRACK" -> 2 [] s = "TERMINAL" -> 3
      [] OTHER -> 0

\* C1: whenever in_scope is false, next_state returns IGNORE, whatever the
\* prior state, has_sufficient_data and the four condition flags are.
C1_OutOfScopeIsIgnore ==
    (Applied /\ ~sm_inp.in_scope) => sm_out = "IGNORE"

C1_Witness ==
    /\ Applied /\ ~sm_inp.in_scope /\ sm_inp.has_sufficient_data
    /\ sm_inp.prev_state = "TERMINAL" /\ AllFlags(sm_inp)
    /\ sm_out = "IGNORE"

\* C2: in scope but without sufficient data, next_state returns MONITOR,
\* whatever the prior state and the four condition flags are.
C2_NoDataIsMonitor ==
    (Applied /\ sm_inp.in_scope /\ ~sm_inp.has_sufficient_data)
        => sm_out = "MONITOR"

C2_Witness ==
    /\ Applied /\ sm_inp.in_scope /\ ~sm_inp.has_sufficient_data
    /\ sm_inp.prev_state = "TRACK" /\ AllFlags(sm_inp)
    /\ sm_out = "MONITOR"

\* C3: hard gate. In scope and with sufficient data, next_state returns
\* MONITOR whenever condition_1 is false, whatever condition_2..4 and the
\* prior state are.
C3_HardGate ==
    (Applied /\ sm_inp.in_scope /\ sm_inp.has_sufficient_data
             /\ ~sm_inp.flags.condition_1)
        => sm_out = "MONITOR"

C3_Witness ==
    /\ Applied /\ sm_inp.in_scope /\ sm_inp.has_sufficient_data
    /\ ~sm_inp.flags.condition_1 /\ sm_inp.flags.condition_2
    /\ sm_inp.flags.condition_3 /\ sm_inp.flags.condition_4
    /\ sm_inp.prev_state = "TRACK"
    /\ sm_out = "MONITOR"

\* C4: in scope, with data and condition_1, from MONITOR the result is TRACK
\* exactly when condition_2 and condition_4 are both true, and MONITOR
\* otherwise; condition_3 has no influence.
C4_MonitorToTrack ==
    (Applied /\ sm_inp.in_scope /\ sm_inp.has_sufficient_data
             /\ sm_inp.flags.condition_1 /\ sm_inp.prev_state = "MONITOR")
        => /\ sm_out \in {"MONITOR", "TRACK"}
           /\ sm_out = "TRACK"
                <=> (sm_inp.flags.condition_2 /\ sm_inp.flags.condition_4)

C4_Witness ==
    /\ Applied /\ sm_inp.in_scope /\ sm_inp.has_sufficient_data
    /\ sm_inp.flags.condition_1 /\ sm_inp.prev_state = "MONITOR"
    /\ sm_inp.flags.condition_2 /\ sm_inp.flags.condition_4
    /\ ~sm_inp.flags.condition_3
    /\ sm_out = "TRACK"

\* C5: in scope, with data and condition_1, from TRACK the result is
\* TERMINAL exactly when condition_3 is true, and TRACK otherwise;
\* condition_2 and condition_4 have no influence.
C5_TrackToTerminal ==
    (Applied /\ sm_inp.in_scope /\ sm_inp.has_sufficient_data
             /\ sm_inp.flags.condition_1 /\ sm_inp.prev_state = "TRACK")
        => /\ sm_out \in {"TRACK", "TERMINAL"}
           /\ sm_out = "TERMINAL" <=> sm_inp.flags.condition_3

C5_Witness ==
    /\ Applied /\ sm_inp.in_scope /\ sm_inp.has_sufficient_data
    /\ sm_inp.flags.condition_1 /\ sm_inp.prev_state = "TRACK"
    /\ sm_inp.flags.condition_3
    /\ ~sm_inp.flags.condition_2 /\ ~sm_inp.flags.condition_4
    /\ sm_out = "TERMINAL"

\* C6: TERMINAL is absorbing. In scope, an evaluation whose prior state is
\* TERMINAL returns TERMINAL, whatever has_sufficient_data and the flags are.
C6_TerminalIsAbsorbing ==
    (Applied /\ sm_inp.in_scope /\ sm_inp.prev_state = "TERMINAL")
        => sm_out = "TERMINAL"

\* C7: in scope, an evaluation whose prior state is IGNORE returns what the
\* same inputs return for prior state MONITOR, and never IGNORE.
C7_IgnoreReentersAtMonitor ==
    (Applied /\ sm_inp.in_scope /\ sm_inp.prev_state = "IGNORE")
        => /\ sm_out = next_state([sm_inp EXCEPT !.prev_state = "MONITOR"])
           /\ sm_out # "IGNORE"

\* C8: escalation is monotone. In scope and with sufficient data, the state
\* never moves backwards in the order MONITOR < TRACK < TERMINAL.
C8_EscalationIsMonotone ==
    (Applied /\ sm_inp.in_scope /\ sm_inp.has_sufficient_data
             /\ sm_inp.prev_state \in {"MONITOR", "TRACK", "TERMINAL"})
        => Rank(sm_out) >= Rank(sm_inp.prev_state)

(***************************************************************************)
(* Spec: cli/evaluate_once.py, run. One action per step of the loop body;  *)
(* run_pc is the step the loop is at for companies[run_idx].               *)
(***************************************************************************)
Init ==
    /\ sm_inp = [in_scope |-> TRUE, has_sufficient_data |-> TRUE,
                 prev_state |-> "MONITOR", flags |-> NoFlags]
    /\ sm_out = "NONE"
    /\ companies = [c \in Companies |-> TRUE]
    /\ companies_tbl = {}
    /\ model_state = {}
    /\ state_events = <<>>
    /\ today = 1
    /\ run_pc = "idle"
    /\ run_idx = 0
    /\ runs = 0
    /\ loc = NoLoc
    /\ last = NoLast
    /\ ConcurrentIdle
    /\ FeatureIdle

NotRunning == run_pc \in {"idle", "done", "crashed"}

\* run is entered (lines 36-42): companies.yaml is loaded (an entity may have
\* entered or left scope since the last run) and the date is read, once.
StartRun ==
    /\ NotRunning
    /\ (runs + 1) * NumCompanies <= MaxIterations
    /\ companies' \in [Companies -> BOOLEAN]
    /\ \E d \in {today, today + 1} :
          /\ d <= MaxDay
          /\ today' = d
    /\ runs' = runs + 1
    /\ run_pc' = "loop"
    /\ run_idx' = 1
    /\ loc' = NoLoc
    /\ last' = NoLast
    /\ UNCHANGED <<sm_vars, cc_vars, fn_vars, db_vars>>

\* `continue`, or the end of the loop body: on to the next company.
Continue ==
    /\ run_idx' = IF run_idx = NumCompanies THEN 0 ELSE run_idx + 1
    /\ run_pc' = IF run_idx = NumCompanies THEN "done" ELSE "loop"
    /\ loc' = NoLoc

\* The summary of the iteration that ends, from its locals.
Summary(kind, state_written, event_written) ==
    [kind |-> kind, company_id |-> run_idx,
     persisted_before |-> loc.persisted,
     prev |-> loc.prev, new_state |-> loc.new_state,
     scan_raised |-> loc.scan_raised,
     state_written |-> state_written, event_written |-> event_written]

\* Lines 45-50: the company is upserted; out of scope, it is skipped.
SkipOutOfScope ==
    /\ run_pc = "loop"
    /\ ~companies[run_idx]
    /\ companies_tbl' = upsert_company(companies_tbl, run_idx, FALSE)
    /\ last' = [NoLast EXCEPT
                  !.kind = "out_of_scope", !.company_id = run_idx,
                  !.persisted_before = get_latest_state(model_state, run_idx)]
    /\ Continue
    /\ UNCHANGED <<sm_vars, cc_vars, fn_vars, model_state, state_events, companies, today, runs>>

\* Line 54 or 56 raises: the facts cannot be fetched (network, HTTP status,
\* missing SEC_USER_AGENT) or condition 1 finds no profit series; lines 63-74
\* skip the entity.
FetchFactsRaises ==
    /\ run_pc = "loop"
    /\ companies[run_idx]
    /\ companies_tbl' = upsert_company(companies_tbl, run_idx, TRUE)
    /\ last' = [NoLast EXCEPT
                  !.kind = "skipped", !.company_id = run_idx,
                  !.persisted_before = get_latest_state(model_state, run_idx)]
    /\ Continue
    /\ UNCHANGED <<sm_vars, cc_vars, fn_vars, model_state, state_events, companies, today, runs>>

\* Lines 45-56: the company is upserted, its facts are fetched and
\* condition 1 is computed.
EvalCondition1 ==
    /\ run_pc = "loop"
    /\ companies[run_idx]
    /\ companies_tbl' = upsert_company(companies_tbl, run_idx, TRUE)
    /\ \E revenue_missing \in BOOLEAN, rd \in BOOLEAN, mf \in BOOLEAN,
          olw \in BOOLEAN :
          LET c1 == condition_1_from_facts(revenue_missing, rd, mf, olw)
          IN  loc' = [NoLoc EXCEPT
                        !.rd = c1.revenue_deceleration_2q,
                        !.mf = c1.margin_failure_2q,
                        !.flags.condition_1 = c1.condition_1]
    /\ run_pc' = "c2"
    /\ UNCHANGED <<sm_vars, cc_vars, fn_vars, model_state, state_events, companies, today,
                   run_idx, runs, last>>

\* Line 57: condition 2 is computed. The flag is taken as the evaluator's
\* output, whatever the facts are; condition_2_from_facts itself is the
\* subject of SpecCondition2.
EvalCondition2 ==
    /\ run_pc = "c2"
    /\ \E c2 \in BOOLEAN : loc' = [loc EXCEPT !.flags.condition_2 = c2]
    /\ run_pc' = "c3"
    /\ UNCHANGED <<sm_vars, cc_vars, fn_vars, db_vars, companies, today, run_idx, runs, last>>

\* Lines 58-62 and 77-84: condition 3 is computed from the facts and the two
\* sub-signals of condition 1; condition 4 is set to its default.
EvalCondition3 ==
    /\ run_pc = "c3"
    /\ \E capex_up \in BOOLEAN, rnd_up \in BOOLEAN, burn \in BOOLEAN :
          loc' = [loc EXCEPT
                    !.flags.condition_3 =
                        condition_3_from_facts(capex_up, rnd_up, burn,
                                               loc.rd, loc.mf),
                    !.flags.condition_4 = Condition4Default.condition_4]
    /\ run_pc' = "scan"
    /\ UNCHANGED <<sm_vars, cc_vars, fn_vars, db_vars, companies, today, run_idx, runs, last>>

\* A variant of EvaluatorRaises that records the failed evaluation as a
\* MONITOR state row instead of skipping the entity.
EvaluatorRaises_persists_monitor ==
    /\ run_pc \in {"c2", "c3"}
    /\ model_state' = write_state(model_state,
                          [company_id |-> run_idx, as_of |-> today,
                           state |-> "MONITOR"])
    /\ last' = [NoLast EXCEPT
                  !.kind = "skipped", !.company_id = run_idx,
                  !.persisted_before = get_latest_state(model_state, run_idx)]
    /\ Continue
    /\ UNCHANGED <<sm_vars, cc_vars, fn_vars, companies_tbl, state_events, companies, today,
                   runs>>

\* Lines 57-74: the evaluator of condition 2 or 3 raises (a series is
\* missing: KeyError; anything else: Exception); the entity is skipped.
EvaluatorRaises ==
    /\ run_pc \in {"c2", "c3"}
    /\ last' = [NoLast EXCEPT
                  !.kind = "skipped", !.company_id = run_idx,
                  !.persisted_before = get_latest_state(model_state, run_idx)]
    /\ Continue
    /\ UNCHANGED <<sm_vars, cc_vars, fn_vars, db_vars, companies, today, runs>>

\* Line 87, guard false: no filing is fetched.
SkipScan ==
    /\ run_pc = "scan"
    /\ ~loc.flags.condition_1
    /\ run_pc' = "read"
    /\ UNCHANGED <<sm_vars, cc_vars, fn_vars, db_vars, companies, today, run_idx, runs, loc,
                   last>>

\* A variant of Scan8K in which a failing fetch skips the entity, as the
\* handlers of lines 63-74 do, instead of degrading to condition_4 = false.
Scan8K_failure_skips ==
    /\ run_pc = "scan"
    /\ loc.flags.condition_1
    /\ \E filings \in FilingLists :
       \E fail_at \in 0 .. Len(filings) + 1 :
          LET scan == ScanFilings(filings, fail_at, loc.rd, loc.mf)
          IN  IF scan.raised
              THEN /\ last' = [NoLast EXCEPT
                                 !.kind = "skipped", !.company_id = run_idx,
                                 !.scan_raised = TRUE]
                   /\ Continue
              ELSE /\ loc' = [loc EXCEPT
                                !.flags.condition_4 = scan.condition_4,
                                !.fetched = scan.fetched]
                   /\ run_pc' = "read"
                   /\ UNCHANGED <<run_idx, last>>
    /\ UNCHANGED <<sm_vars, cc_vars, fn_vars, db_vars, companies, today, runs>>

\* A variant of Scan8K without the guard of line 87: the filings are scanned
\* whatever condition 1 is.
Scan8K_unguarded ==
    /\ run_pc = "scan"
    /\ \E filings \in FilingLists :
       \E fail_at \in 0 .. Len(filings) + 1 :
          LET scan == ScanFilings(filings, fail_at, loc.rd, loc.mf)
          IN  loc' = [loc EXCEPT !.flags.condition_4 = scan.condition_4,
                                 !.scan_raised = scan.raised,
                                 !.fetched = scan.fetched]
    /\ run_pc' = "read"
    /\ UNCHANGED <<sm_vars, cc_vars, fn_vars, db_vars, companies, today, run_idx, runs, last>>

\* Lines 87-118: the 8-K filings of the last 90 days are scanned.
Scan8K ==
    /\ run_pc = "scan"
    /\ loc.flags.condition_1
    /\ \E filings \in FilingLists :
       \E fail_at \in 0 .. Len(filings) + 1 :
          LET scan == ScanFilings(filings, fail_at, loc.rd, loc.mf)
          IN  loc' = [loc EXCEPT !.flags.condition_4 = scan.condition_4,
                                 !.scan_raised = scan.raised,
                                 !.fetched = scan.fetched]
    /\ run_pc' = "read"
    /\ UNCHANGED <<sm_vars, cc_vars, fn_vars, db_vars, companies, today, run_idx, runs, last>>

\* Lines 120-129: the latest persisted state is read (MONITOR when there is
\* none) and the state machine is run.
ReadState ==
    /\ run_pc = "read"
    /\ LET persisted == get_latest_state(model_state, run_idx)
           prev == IF persisted = "NONE" THEN "MONITOR" ELSE persisted
           evaluation == [in_scope |-> TRUE, has_sufficient_data |-> TRUE,
                          prev_state |-> prev, flags |-> loc.flags]
       IN  loc' = [loc EXCEPT !.persisted = persisted, !.prev = prev,
                              !.new_state = next_state(evaluation)]
    /\ run_pc' = "write"
    /\ UNCHANGED <<sm_vars, cc_vars, fn_vars, db_vars, companies, today, run_idx, runs, last>>

\* Lines 131-147 and 165-172: the state row is written; an unchanged state
\* ends the iteration.
WriteState ==
    /\ run_pc = "write"
    /\ model_state' = write_state(model_state,
                          [company_id |-> run_idx, as_of |-> today,
                           state |-> loc.new_state])
    /\ IF loc.new_state # loc.prev
       THEN /\ run_pc' = "notify"
            /\ UNCHANGED <<run_idx, loc, last>>
       ELSE /\ last' = Summary("unchanged", TRUE, FALSE)
            /\ Continue
    /\ UNCHANGED <<sm_vars, cc_vars, fn_vars, companies_tbl, state_events, companies, today,
                   runs>>

\* Lines 148-152, notify/slack.py: no webhook is configured, or the post
\* returns.
NotifyReturns ==
    /\ run_pc = "notify"
    /\ run_pc' = "event"
    /\ UNCHANGED <<sm_vars, cc_vars, fn_vars, db_vars, companies, today, run_idx, runs, loc,
                   last>>

\* Lines 148-152, notify/slack.py line 10: requests.post raises (connection
\* error, timeout); nothing in run catches it and the process ends.
NotifyRaises ==
    /\ run_pc = "notify"
    /\ run_pc' = "crashed"
    /\ run_idx' = 0
    /\ last' = Summary("notify_raised", TRUE, FALSE)
    /\ loc' = NoLoc
    /\ UNCHANGED <<sm_vars, cc_vars, fn_vars, db_vars, companies, today, runs>>

\* Lines 154-164: the state-change event is written.
WriteEvent ==
    /\ run_pc = "event"
    /\ state_events' = write_event(state_events,
                           [company_id |-> run_idx, as_of |-> today,
                            prev_state |-> loc.prev,
                            new_state |-> loc.new_state])
    /\ last' = Summary("changed", TRUE, TRUE)
    /\ Continue
    /\ UNCHANGED <<sm_vars, cc_vars, fn_vars, companies_tbl, model_state, companies, today,
                   runs>>

Next ==
    \/ StartRun
    \/ SkipOutOfScope
    \/ FetchFactsRaises
    \/ EvalCondition1
    \/ EvalCondition2
    \/ EvalCondition3
    \/ EvaluatorRaises
    \/ SkipScan
    \/ Scan8K
    \/ ReadState
    \/ WriteState
    \/ NotifyReturns
    \/ NotifyRaises
    \/ WriteEvent

Spec == Init /\ [][Next]_vars

\* An iteration that ran the state machine has ended (or ended the run).
IterationEvaluated == last.kind \in {"unchanged", "changed", "notify_raised"}

\* C9: in a batch cycle, a state-change event carrying (prev_state,
\* new_state, as_of) is recorded for an entity exactly when the newly
\* computed state differs from its previously persisted state.
C9_EventIffStateChanged ==
    IterationEvaluated =>
        /\ last.event_written <=> (last.new_state # last.prev)
        /\ last.event_written =>
              /\ Len(state_events) > 0
              /\ state_events[Len(state_events)] =
                    [company_id |-> last.company_id, as_of |-> today,
                     prev_state |-> last.prev, new_state |-> last.new_state]

\* C10: in a batch cycle, an entity that is out of scope gets new state
\* IGNORE, and a change event is emitted for it only when its previous state
\* was not IGNORE already.
C10_OutOfScopeBecomesIgnore ==
    last.kind = "out_of_scope" =>
        /\ get_latest_state(model_state, last.company_id) = "IGNORE"
        /\ last.event_written => last.persisted_before # "IGNORE"

\* C11: a failure while processing one entity never halts the batch: a run
\* only ends after the iteration of the last listed entity, so every entity
\* listed after a failing one is still evaluated.
C11_FailureNeverHaltsBatch ==
    run_pc \in {"done", "crashed"} => last.company_id = NumCompanies

\* C12: an entity whose evaluation of condition 1, 2 or 3 raises is skipped:
\* no step of its iteration writes a state row or an event, so its latest
\* persisted state is the one it had before, and the next evaluation that
\* reaches the state machine takes that retained state as prev_state.
C12_SkippedEntityKeepsState ==
    [][/\ run_pc \in {"loop", "c2", "c3"} =>
            /\ model_state' = model_state
            /\ state_events' = state_events
       /\ (last' # last /\ last'.kind = "skipped") =>
            get_latest_state(model_state', last'.company_id) =
                last'.persisted_before
       /\ (run_pc = "read" /\ run_pc' = "write") =>
            loc'.prev = IF get_latest_state(model_state, run_idx) = "NONE"
                        THEN "MONITOR"
                        ELSE get_latest_state(model_state, run_idx)]_vars

\* An entity that has a persisted state was skipped.
C12_Witness ==
    /\ last.kind = "skipped"
    /\ last.persisted_before = "MONITOR"
    /\ get_latest_state(model_state, last.company_id) = "MONITOR"

\* C13: a failure while fetching or parsing filing text for condition 4
\* degrades to condition_4 = false and the evaluation still completes: the
\* state machine is run with conditions 1 to 3 as computed and a state row
\* is written for the entity.
C13_ScanFailureDegrades ==
    /\ loc.scan_raised =>
          /\ ~loc.flags.condition_4
          /\ run_pc \in {"read", "write", "notify", "event"}
    /\ (loc.scan_raised /\ run_pc \in {"write", "notify", "event"}) =>
          loc.new_state =
              next_state([in_scope |-> TRUE, has_sufficient_data |-> TRUE,
                          prev_state |-> loc.prev,
                          flags |-> [loc.flags EXCEPT !.condition_4 = FALSE]])
    /\ last.scan_raised =>
          /\ last.state_written
          /\ [company_id |-> last.company_id, as_of |-> today,
              state |-> last.new_state] \in model_state

\* An evaluation whose 8-K scan raised ended with its state row written.
C13_Witness ==
    /\ last.scan_raised
    /\ last.state_written
    /\ last.new_state \in ModelState

\* C14: the 8-K text scan runs only when condition_1 is true; when
\* condition_1 is false no submissions and no filing text are fetched and
\* condition_4 is false.
C14_ScanOnlyWhenCondition1 ==
    /\ loc.fetched > 0 => loc.flags.condition_1
    /\ (run_pc \in {"read", "write", "notify", "event"}
        /\ ~loc.flags.condition_1) =>
          /\ loc.fetched = 0
          /\ ~loc.scan_raised
          /\ ~loc.flags.condition_4

\* An evaluation with condition_1 false went past the scan and ran the state
\* machine.
C14_Witness ==
    /\ run_pc = "write"
    /\ ~loc.flags.condition_1
    /\ loc.fetched = 0
    /\ loc.new_state = "MONITOR"

(***************************************************************************)
(* SpecConcurrent: several invocations of run (cli/evaluate_once.py) that   *)
(* overlap on one sqlite file. Each opens its own connection                *)
(* (storage/db.py, connect) and every statement of get_latest_state,        *)
(* write_state and write_event is committed on its own; the code takes no   *)
(* lock and opens no transaction around lines 120-163.                      *)
(***************************************************************************)
MaxProcs == 2

Procs == 1 .. MaxProcs

ProcStart ==
    [pc |-> "read", company_id |-> 0, prev |-> "NONE", new_state |-> "NONE"]

ConcurrentInit ==
    /\ sm_inp = [in_scope |-> TRUE, has_sufficient_data |-> TRUE,
                 prev_state |-> "MONITOR", flags |-> NoFlags]
    /\ sm_out = "NONE"
    /\ companies = [c \in Companies |-> TRUE]
    /\ companies_tbl = {}
    /\ model_state = {}
    /\ state_events = <<>>
    /\ today = 1
    /\ run_pc = "off"
    /\ run_idx = 0
    /\ runs = 0
    /\ loc = NoLoc
    /\ last = NoLast
    /\ procs = [p \in Procs |-> ProcStart]
    /\ FeatureIdle

\* Lines 120-129 in run p, for one of the companies: the latest persisted
\* state is read and the state machine is run on the flags of this run.
ProcReadState ==
    \E p \in Procs, c \in Companies, f \in ConditionFlags :
       /\ procs[p].pc = "read"
       /\ LET persisted == get_latest_state(model_state, c)
              prev == IF persisted = "NONE" THEN "MONITOR" ELSE persisted
              evaluation == [in_scope |-> TRUE, has_sufficient_data |-> TRUE,
                             prev_state |-> prev, flags |-> f]
          IN  procs' = [procs EXCEPT ![p] =
                          [pc |-> "write", company_id |-> c, prev |-> prev,
                           new_state |-> next_state(evaluation)]]
       /\ UNCHANGED <<sm_vars, db_vars, run_vars, fn_vars>>

\* Lines 131-147 in run p.
ProcWriteState ==
    \E p \in Procs :
       /\ procs[p].pc = "write"
       /\ model_state' = write_state(model_state,
                             [company_id |-> procs[p].company_id,
                              as_of |-> today,
                              state |-> procs[p].new_state])
       /\ procs' = [procs EXCEPT ![p].pc =
                       IF procs[p].new_state # procs[p].prev
                       THEN "notify" ELSE "done"]
       /\ UNCHANGED <<sm_vars, companies_tbl, state_events, run_vars, fn_vars>>

\* Lines 148-152 in run p: notify returns.
ProcNotifyReturns ==
    \E p \in Procs :
       /\ procs[p].pc = "notify"
       /\ procs' = [procs EXCEPT ![p].pc = "event"]
       /\ UNCHANGED <<sm_vars, db_vars, run_vars, fn_vars>>

\* Lines 148-152 in run p: notify raises and the run ends.
ProcNotifyRaises ==
    \E p \in Procs :
       /\ procs[p].pc = "notify"
       /\ procs' = [procs EXCEPT ![p].pc = "crashed"]
       /\ UNCHANGED <<sm_vars, db_vars, run_vars, fn_vars>>

\* Lines 154-163 in run p.
ProcWriteEvent ==
    \E p \in Procs :
       /\ procs[p].pc = "event"
       /\ state_events' = write_event(state_events,
                              [company_id |-> procs[p].company_id,
                               as_of |-> today,
                               prev_state |-> procs[p].prev,
                               new_state |-> procs[p].new_state])
       /\ procs' = [procs EXCEPT ![p].pc = "done"]
       /\ UNCHANGED <<sm_vars, companies_tbl, model_state, run_vars, fn_vars>>

ConcurrentNext ==
    \/ ProcReadState
    \/ ProcWriteState
    \/ ProcNotifyReturns
    \/ ProcNotifyRaises
    \/ ProcWriteEvent

SpecConcurrent == ConcurrentInit /\ [][ConcurrentNext]_vars

\* Run p has read the persisted state of its entity and has not yet finished
\* writing what it computed from it.
InFlight(p) == procs[p].pc \in {"write", "notify", "event"}

\* C15: for one entity, read latest state -> compute -> write state (and
\* event) is one atomic unit: two concurrent evaluations of the same entity
\* are never both between their read and the end of their writes, so they
\* cannot both read the same prior state and then both write.
C15_EvaluationIsSerialized ==
    \A p \in DOMAIN procs, q \in DOMAIN procs :
       (p # q /\ InFlight(p) /\ InFlight(q)) =>
           procs[p].company_id # procs[q].company_id

(***************************************************************************)
(* features/facts_extract.py: a tag object's raw items become a series.     *)
(* A raw item is [quarterish, end, val, filed]:                             *)
(*   quarterish : the result of _is_quarterish(item) (form and fp);         *)
(*   end        : the period-end date, an ISO yyyy-mm-dd string in the SEC  *)
(*                data, whose string order is the date order: a day number, *)
(*                0 when the item has no end;                               *)
(*   val        : safe_float(item.get("val")): <<>> for None, else <<v>>;   *)
(*   filed      : str(item.get("filed") or ""): a day number, 0 for "".     *)
(***************************************************************************)
MaxRawLen == 3

UsableItems ==
    [quarterish : {TRUE}, end : {1, 2, 3}, val : {<<1>>, <<2>>},
     filed : {0, 1, 2}]

UnusableItems ==
    {[quarterish |-> FALSE, end |-> 1, val |-> <<1>>, filed |-> 1],
     [quarterish |-> TRUE, end |-> 0, val |-> <<1>>, filed |-> 1],
     [quarterish |-> TRUE, end |-> 1, val |-> <<>>, filed |-> 1]}

RawItems == UsableItems \cup UnusableItems

RawLists == UNION {[1 .. n -> RawItems] : n \in 0 .. MaxRawLen}

\* Lines 108-111: the index in by_end (kept in insertion order, as a dict is)
\* of the entry whose key is end; 0 when there is none.
by_end_get(by_end, end) ==
    IF \E i \in 1 .. Len(by_end) : by_end[i].end = end
    THEN CHOOSE i \in 1 .. Len(by_end) : by_end[i].end = end
    ELSE 0

\* A variant of by_end_put that appends every usable item, whether or not
\* its period end is already present.
by_end_put_no_dedupe(by_end, item) ==
    IF ~item.quarterish \/ item.end = 0 \/ item.val = <<>>
    THEN by_end
    ELSE Append(by_end, item)

\* Lines 96-118, one turn of the loop over raw.
by_end_put(by_end, item) ==
    IF ~item.quarterish \/ item.end = 0 \/ item.val = <<>>
    THEN by_end
    ELSE LET existing == by_end_get(by_end, item.end)
         IN  IF existing = 0 THEN Append(by_end, item)
             ELSE IF item.filed # 0
                     /\ (by_end[existing].filed = 0
                         \/ item.filed > by_end[existing].filed)
                  THEN [by_end EXCEPT ![existing] = item]
                  ELSE by_end

RECURSIVE by_end_of(_, _, _)
by_end_of(raw, i, by_end) ==
    IF i > Len(raw) THEN by_end
    ELSE by_end_of(raw, i + 1, by_end_put(by_end, raw[i]))

\* Line 127: list.sort(key = end), a stable sort; p is inserted after the
\* points whose key is not greater than its own.
RECURSIVE sort_insert(_, _)
sort_insert(sorted, p) ==
    IF sorted = <<>> THEN <<p>>
    ELSE IF p[1] < sorted[1][1] THEN <<p>> \o sorted
    ELSE <<sorted[1]>> \o sort_insert(Tail(sorted), p)

RECURSIVE sort_by_end(_, _, _)
sort_by_end(points, i, sorted) ==
    IF i > Len(points) THEN sorted
    ELSE sort_by_end(points, i + 1, sort_insert(sorted, points[i]))

\* Lines 77-134, for the list raw of the unit that is picked.
extract_points_from_tag_obj(raw) ==
    LET by_end == by_end_of(raw, 1, <<>>)
        points == [i \in 1 .. Len(by_end) |->
                      <<by_end[i].end, by_end[i].val[1]>>]
    IN  sort_by_end(points, 1, <<>>)

\* Lines 137-155 with one argument: the tag object itself.
quarterly_points(raw) == extract_points_from_tag_obj(raw)

SystemIdle ==
    /\ sm_inp = [in_scope |-> TRUE, has_sufficient_data |-> TRUE,
                 prev_state |-> "MONITOR", flags |-> NoFlags]
    /\ sm_out = "NONE"
    /\ BatchIdle
    /\ ConcurrentIdle

ExtractInit ==
    /\ fn_in \in [raw : RawLists]
    /\ fn_out = <<>>
    /\ SystemIdle

Extract ==
    /\ fn_out = <<>>
    /\ fn_out' = <<quarterly_points(fn_in.raw)>>
    /\ UNCHANGED <<sm_vars, db_vars, run_vars, cc_vars, fn_in>>

SpecExtract == ExtractInit /\ [][Extract]_vars

\* C16: for any raw tag object, the series returned by quarterly_points is
\* strictly ascending by period-end date, so no date appears twice.
C16_SeriesStrictlyAscending ==
    fn_out # <<>> =>
        LET series == fn_out[1]
        IN  \A i \in 1 .. Len(series), j \in 1 .. Len(series) :
               i < j => series[i][1] < series[j][1]

\* A raw list that holds the same period end twice and its dates out of
\* order was extracted.
C16_Witness ==
    /\ fn_out # <<>>
    /\ Len(fn_out[1]) = 2
    /\ Len(fn_in.raw) = 3
    /\ fn_in.raw[1].end = 3 /\ fn_in.raw[2].end = 1 /\ fn_in.raw[3].end = 3
    /\ \A i \in 1 .. 3 : fn_in.raw[i] \in UsableItems

(***************************************************************************)
(* features/facts_extract.py, pick_tag_series: facts maps the tags that the *)
(* company reports to their raw items, tags is the priority list.           *)
(***************************************************************************)
TagNames == {"Revenues", "SalesRevenueNet"}

TagLists ==
    {<<"Revenues", "SalesRevenueNet">>, <<"SalesRevenueNet", "Revenues">>,
     <<"Revenues">>}

PickItems ==
    {[quarterish |-> TRUE, end |-> 1, val |-> <<1>>, filed |-> 1],
     [quarterish |-> TRUE, end |-> 1, val |-> <<2>>, filed |-> 2],
     [quarterish |-> TRUE, end |-> 2, val |-> <<1>>, filed |-> 1],
     [quarterish |-> FALSE, end |-> 3, val |-> <<1>>, filed |-> 1]}

PickLists == UNION {[1 .. n -> PickItems] : n \in 0 .. MaxRawLen}

Facts == UNION {[S -> PickLists] : S \in SUBSET TagNames}

\* Lines 150-155: quarterly_points(facts, tag); no such tag, no points.
quarterly_points_tag(facts, tag) ==
    IF tag \in DOMAIN facts THEN extract_points_from_tag_obj(facts[tag])
    ELSE <<>>

\* The KeyError of line 169; its message lists tags.
NoSeriesFound(tags) ==
    [raised |-> TRUE, tag |-> "", series |-> <<>>, message_tags |-> tags]

\* A variant of pick_from that settles for a series of one point.
RECURSIVE pick_from_one_point(_, _, _)
pick_from_one_point(facts, tags, i) ==
    IF i > Len(tags) THEN NoSeriesFound(tags)
    ELSE LET s == quarterly_points_tag(facts, tags[i])
         IN  IF Len(s) >= 1
             THEN [raised |-> FALSE, tag |-> tags[i], series |-> s,
                   message_tags |-> <<>>]
             ELSE pick_from_one_point(facts, tags, i + 1)

\* Lines 165-169, from the i-th tag on.
RECURSIVE pick_from(_, _, _)
pick_from(facts, tags, i) ==
    IF i > Len(tags) THEN NoSeriesFound(tags)
    ELSE LET s == quarterly_points_tag(facts, tags[i])
         IN  IF Len(s) >= 2
             THEN [raised |-> FALSE, tag |-> tags[i], series |-> s,
                   message_tags |-> <<>>]
             ELSE pick_from(facts, tags, i + 1)

pick_tag_series(facts, tags) == pick_from(facts, tags, 1)

PickInit ==
    /\ fn_in \in [facts : Facts, tags : TagLists]
    /\ fn_out = <<>>
    /\ SystemIdle

Pick ==
    /\ fn_out = <<>>
    /\ fn_out' = <<pick_tag_series(fn_in.facts, fn_in.tags)>>
    /\ UNCHANGED <<sm_vars, db_vars, run_vars, cc_vars, fn_in>>

SpecPick == PickInit /\ [][Pick]_vars

\* The i-th tag of the priority list has a series of at least two points.
HasSeries(i) ==
    Len(quarterly_points_tag(fn_in.facts, fn_in.tags[i])) >= 2

\* C17: pick_tag_series returns the first tag, in priority order, whose
\* extracted series has at least two usable points, with that whole series;
\* when no tag has one it returns no partial series and fails with an error
\* that names every tag it tried.
C17_FirstTagWithTwoPoints ==
    fn_out # <<>> =>
        LET r == fn_out[1]
            tags == fn_in.tags
        IN  IF \E i \in 1 .. Len(tags) : HasSeries(i)
            THEN /\ ~r.raised
                 /\ \E i \in 1 .. Len(tags) :
                       /\ HasSeries(i)
                       /\ \A j \in 1 .. i - 1 : ~HasSeries(j)
                       /\ r.tag = tags[i]
                       /\ r.series = quarterly_points_tag(fn_in.facts, tags[i])
            ELSE /\ r.raised
                 /\ r.series = <<>>
                 /\ r.message_tags = tags

\* The first tag has a single usable point (two filings of one period end),
\* and the second tag was returned.
C17_Witness ==
    /\ fn_out # <<>>
    /\ fn_in.tags = <<"Revenues", "SalesRevenueNet">>
    /\ "Revenues" \in DOMAIN fn_in.facts
    /\ Len(quarterly_points_tag(fn_in.facts, "Revenues")) = 1
    /\ fn_out[1].tag = "SalesRevenueNet"
    /\ Len(fn_out[1].series) = 2

(***************************************************************************)
(* features/condition1.py on series. A series is what pick_tag_series       *)
(* returns: points <<end, val>>, at least two, ascending by end; <<>>       *)
(* stands for the KeyError of a concept that has no such series. A ratio    *)
(* is a pair <<numerator, denominator>> with a positive denominator.        *)
(***************************************************************************)
MaxSeriesLen == 3

RevenueValues == {0, 1, 2, 4}

ProfitValues == {-2, -1, 0, 1}

\* The series of consecutive periods whose first period end is first.
SeriesFrom(values, first) ==
    UNION {{[i \in 1 .. n |-> <<first + i - 1, v[i]>>] :
              v \in [1 .. n -> values]} :
             n \in 2 .. MaxSeriesLen}

SeriesOver(values) == SeriesFrom(values, 1)

abs(x) == IF x < 0 THEN -x ELSE x

Ratio(a, b) == IF b < 0 THEN <<-a, -b>> ELSE <<a, b>>

RatioLess(x, y) == x[1] * y[2] < y[1] * x[2]

\* facts_extract.py lines 27-31: <<>> for None, else <<the ratio>>.
pct_change(prev, curr) ==
    LET denom == abs(prev)
    IN  IF denom = 0 THEN <<>> ELSE <<Ratio((curr - prev) * 100, denom)>>

\* A variant of two_quarter_revenue_deceleration that also fires on equal
\* growth rates.
two_quarter_revenue_deceleration_or_equal(rev_series) ==
    IF Len(rev_series) < 3 THEN FALSE
    ELSE LET n == Len(rev_series)
             g1 == pct_change(rev_series[n - 2][2], rev_series[n - 1][2])
             g2 == pct_change(rev_series[n - 1][2], rev_series[n][2])
         IN  IF g1 = <<>> \/ g2 = <<>> THEN FALSE
             ELSE ~RatioLess(g1[1], g2[1])

\* Lines 41-57.
two_quarter_revenue_deceleration(rev_series) ==
    IF Len(rev_series) < 3 THEN FALSE
    ELSE LET n == Len(rev_series)
             r1 == rev_series[n - 2][2]
             r2 == rev_series[n - 1][2]
             r3 == rev_series[n][2]
             g1 == pct_change(r1, r2)
             g2 == pct_change(r2, r3)
         IN  IF g1 = <<>> \/ g2 = <<>> THEN FALSE
             ELSE RatioLess(g2[1], g1[1])

\* Lines 73-76.
margin(profit, revenue) ==
    IF revenue = 0 THEN Ratio(0, 1) ELSE Ratio(profit, revenue)

\* Lines 60-84: the last three points of each series, paired by index.
two_quarter_margin_failure(rev_series, profit_series) ==
    IF Len(rev_series) < 3 \/ Len(profit_series) < 3 THEN FALSE
    ELSE LET n == Len(rev_series)
             k == Len(profit_series)
             m1 == margin(profit_series[k - 2][2], rev_series[n - 2][2])
             m2 == margin(profit_series[k - 1][2], rev_series[n - 1][2])
             m3 == margin(profit_series[k][2], rev_series[n][2])
         IN  RatioLess(m2, m1) /\ RatioLess(m3, m2)

\* Lines 87-98.
two_quarter_operating_loss_worsening(oi_series) ==
    IF Len(oi_series) < 2 THEN FALSE
    ELSE LET a == oi_series[Len(oi_series) - 1][2]
             b == oi_series[Len(oi_series)][2]
         IN  a < 0 /\ b < a

\* Lines 101-146 on the series that the picks of lines 106-118 return; no
\* profit series at all: the KeyError of line 117 leaves the function.
condition_1_on_series(rev_series, profit_series) ==
    IF profit_series = <<>>
    THEN [raised |-> TRUE, revenue_missing |-> rev_series = <<>>,
          revenue_deceleration_2q |-> FALSE, margin_failure_2q |-> FALSE,
          operating_loss_worsening_2q |-> FALSE, condition_1 |-> FALSE]
    ELSE LET c1 == condition_1_from_facts(
                       rev_series = <<>>,
                       two_quarter_revenue_deceleration(rev_series),
                       two_quarter_margin_failure(rev_series, profit_series),
                       two_quarter_operating_loss_worsening(profit_series))
         IN  [raised |-> FALSE, revenue_missing |-> rev_series = <<>>,
              revenue_deceleration_2q |-> c1.revenue_deceleration_2q,
              margin_failure_2q |-> c1.margin_failure_2q,
              operating_loss_worsening_2q |-> c1.operating_loss_worsening_2q,
              condition_1 |-> c1.condition_1]

Condition1Init ==
    /\ fn_in \in [revenue : {<<>>} \cup SeriesOver(RevenueValues),
                  profit : {<<>>} \cup SeriesOver(ProfitValues)
                              \cup SeriesFrom(ProfitValues, 2)]
    /\ fn_out = <<>>
    /\ SystemIdle

Condition1 ==
    /\ fn_out = <<>>
    /\ fn_out' = <<condition_1_on_series(fn_in.revenue, fn_in.profit)>>
    /\ UNCHANGED <<sm_vars, db_vars, run_vars, cc_vars, fn_in>>

SpecCondition1 == Condition1Init /\ [][Condition1]_vars

Returned == fn_out # <<>> /\ ~fn_out[1].raised

\* C18 as stated: on every input on which it returns, condition_1 equals
\* revenue_deceleration OR margin_failure.
C18_Condition1IsEitherSignal ==
    Returned =>
        fn_out[1].condition_1 =
            (fn_out[1].revenue_deceleration_2q \/ fn_out[1].margin_failure_2q)

\* C18, amended: condition_1 equals revenue_deceleration OR margin_failure
\* OR operating_loss_worsening; the third signal can only be true when no
\* revenue series was found, and then the first two are false.
C18_Condition1IsAnyOfThree ==
    Returned =>
        /\ fn_out[1].condition_1 =
              (fn_out[1].revenue_deceleration_2q
                 \/ fn_out[1].margin_failure_2q
                 \/ fn_out[1].operating_loss_worsening_2q)
        /\ fn_out[1].operating_loss_worsening_2q =>
              /\ fn_out[1].revenue_missing
              /\ ~fn_out[1].revenue_deceleration_2q
              /\ ~fn_out[1].margin_failure_2q
        /\ ~fn_out[1].revenue_missing =>
              fn_out[1].condition_1 =
                  (fn_out[1].revenue_deceleration_2q
                     \/ fn_out[1].margin_failure_2q)

\* No revenue series, an operating loss that deepens: condition_1 is true.
C18_Witness ==
    /\ Returned
    /\ fn_in.revenue = <<>>
    /\ fn_out[1].operating_loss_worsening_2q
    /\ fn_out[1].condition_1

\* The revenue of the i-th of the last three periods (1 the oldest).
LastThreeRevenue(i) == fn_in.revenue[Len(fn_in.revenue) - 3 + i][2]

\* C19: a zero denominator in a margin or growth-ratio computation (zero
\* revenue in a margin, zero previous value in a growth rate) never raises
\* and never contributes to a triggering result: with a zero previous
\* revenue revenue_deceleration is false, and with a zero revenue among the
\* periods of the margins margin_failure is false.
C19_ZeroDenominatorNeverTriggers ==
    (fn_out # <<>> /\ Len(fn_in.revenue) >= 3 /\ fn_in.profit # <<>>) =>
        /\ ~fn_out[1].raised
        /\ (LastThreeRevenue(1) = 0 \/ LastThreeRevenue(2) = 0) =>
              ~fn_out[1].revenue_deceleration_2q
        /\ (\E i \in 1 .. 3 : LastThreeRevenue(i) = 0) =>
              ~fn_out[1].margin_failure_2q

(***************************************************************************)
(* features/condition2.py. facts maps the us-gaap tags the company reports  *)
(* to their list of USD items (facts["facts"]["us-gaap"][tag]["units"]      *)
(* ["USD"]); an item is a raw item of facts_extract.py.                     *)
(***************************************************************************)
OPEX_TAGS == <<"OperatingExpenses", "OperatingCostsAndExpenses">>

SGA_TAGS == <<"SellingGeneralAndAdministrativeExpense">>

RD_TAGS == <<"ResearchAndDevelopmentExpense">>

REVENUE_TAGS ==
    <<"Revenues", "SalesRevenueNet",
      "RevenueFromContractWithCustomerExcludingAssessedTax">>

ReportedTags ==
    {"Revenues", "OperatingExpenses",
     "SellingGeneralAndAdministrativeExpense",
     "ResearchAndDevelopmentExpense"}

\* The USD list of a reported tag: one usable item for each of the latest
\* periods.
UsdListsOver(values) ==
    {[i \in 1 .. MaxSeriesLen |->
         [quarterish |-> TRUE, end |-> i, val |-> <<v[i]>>, filed |-> 1]] :
       v \in [1 .. MaxSeriesLen -> values]}

\* Every reported tag with a list; a company reports some of the tags.
AllTagsReported ==
    [Revenues : UsdListsOver({1, 3}),
     OperatingExpenses : UsdListsOver({1, 2, 3}),
     SellingGeneralAndAdministrativeExpense : UsdListsOver({1}),
     ResearchAndDevelopmentExpense : UsdListsOver({1})]

UsdFacts ==
    UNION {{[tag \in S |-> full[tag]] : full \in AllTagsReported} :
             S \in SUBSET ReportedTags}

\* Lines 28-32: the list of the tag; <<>> is also the None of a KeyError,
\* the callers only test `if s`.
get_usd_series(facts, tag) ==
    IF tag \in DOMAIN facts THEN facts[tag] ELSE <<>>

\* Lines 34-39.
RECURSIVE pick_series_from(_, _, _)
pick_series_from(facts, tags, i) ==
    IF i > Len(tags) THEN [raised |-> TRUE, tag |-> "", series |-> <<>>]
    ELSE LET s == get_usd_series(facts, tags[i])
         IN  IF s # <<>>
             THEN [raised |-> FALSE, tag |-> tags[i], series |-> s]
             ELSE pick_series_from(facts, tags, i + 1)

pick_series(facts, tags) == pick_series_from(facts, tags, 1)

\* facts_extract.py lines 146-148: quarterly_points called with one
\* argument that is a list of items, not a tag object (a dict): no points.
quarterly_points_of_list(items) == <<>>

\* facts_extract.py lines 158-161.
latest_n_quarters(series, n) ==
    IF series = <<>> \/ n <= 0 THEN <<>>
    ELSE SubSeq(series,
                IF Len(series) > n THEN Len(series) - n + 1 ELSE 1,
                Len(series))

\* Lines 61-63: {d: v for d, v in _values(points)}; the last point of a date
\* wins.
date_map(points) ==
    [d \in {points[i][1] : i \in 1 .. Len(points)} |->
        LET last_i == CHOOSE i \in 1 .. Len(points) :
                         /\ points[i][1] = d
                         /\ \A j \in i + 1 .. Len(points) : points[j][1] # d
        IN  points[last_i][2]]

usd_map(items) == date_map(latest_n_quarters(quarterly_points_of_list(items), 8))

\* Lines 69-75: the map of the first operating-expense tag that has items.
RECURSIVE opex_map_from(_, _, _)
opex_map_from(facts, tags, i) ==
    IF i > Len(tags) THEN <<>>
    ELSE LET s == get_usd_series(facts, tags[i])
         IN  IF s # <<>> THEN usd_map(s)
             ELSE opex_map_from(facts, tags, i + 1)

\* sorted(set): the dates in ascending order.
RECURSIVE sorted(_)
sorted(dates) ==
    IF dates = {} THEN <<>>
    ELSE LET first == CHOOSE d \in dates : \A e \in dates : d <= e
         IN  <<first>> \o sorted(dates \ {first})

\* Lines 47-56.
qoq_growth(vals) ==
    [i \in 1 .. Len(vals) - 1 |->
        IF vals[i] = 0 THEN Ratio(0, 1)
        ELSE Ratio(vals[i + 1] - vals[i], vals[i])]

\* Lines 91-128.
condition_2_aligned(rev_map, opex_map) ==
    LET dates == sorted(DOMAIN rev_map \cap DOMAIN opex_map)
        n == Len(dates)
        rev_vals == [i \in 1 .. n |-> rev_map[dates[i]]]
        opex_vals == [i \in 1 .. n |-> opex_map[dates[i]]]
        rev_growth == qoq_growth(rev_vals)
        opex_growth == qoq_growth(opex_vals)
        opex_up_2q ==
            IF n >= 3
            THEN opex_vals[n] > opex_vals[n - 1]
                 /\ opex_vals[n - 1] > opex_vals[n - 2]
            ELSE FALSE
        neg_leverage_2q ==
            IF n >= 3
            THEN RatioLess(rev_growth[n - 1], opex_growth[n - 1])
                 /\ RatioLess(rev_growth[n - 2], opex_growth[n - 2])
            ELSE FALSE
    IN  [raised |-> FALSE, dates |-> dates, opex_up_2q |-> opex_up_2q,
         negative_leverage_2q |-> neg_leverage_2q,
         condition_2 |-> (opex_up_2q /\ neg_leverage_2q)]

\* The KeyError of _pick_series (line 39) leaves condition_2_from_facts.
Condition2Raised ==
    [raised |-> TRUE, dates |-> <<>>, opex_up_2q |-> FALSE,
     negative_leverage_2q |-> FALSE, condition_2 |-> FALSE]

\* Lines 58-128.
condition_2_from_facts(facts) ==
    LET rev == pick_series(facts, REVENUE_TAGS)
        opex_map == opex_map_from(facts, OPEX_TAGS, 1)
        sga == pick_series(facts, SGA_TAGS)
        rd == pick_series(facts, RD_TAGS)
        sga_map == usd_map(sga.series)
        rd_map == usd_map(rd.series)
    IN  IF rev.raised THEN Condition2Raised
        ELSE IF DOMAIN opex_map # {}
        THEN condition_2_aligned(usd_map(rev.series), opex_map)
        ELSE IF sga.raised \/ rd.raised THEN Condition2Raised
        ELSE condition_2_aligned(
                 usd_map(rev.series),
                 [d \in DOMAIN sga_map \cap DOMAIN rd_map |->
                     sga_map[d] + rd_map[d]])

Condition2Init ==
    /\ fn_in \in [facts : UsdFacts]
    /\ fn_out = <<>>
    /\ SystemIdle

Condition2 ==
    /\ fn_out = <<>>
    /\ fn_out' = <<condition_2_from_facts(fn_in.facts)>>
    /\ UNCHANGED <<sm_vars, db_vars, run_vars, cc_vars, fn_in>>

SpecCondition2 == Condition2Init /\ [][Condition2]_vars

\* No tag of the list has items in the facts.
ConceptMissing(tags) ==
    \A i \in 1 .. Len(tags) : get_usd_series(fn_in.facts, tags[i]) = <<>>

\* C20: when a concept that condition 2 needs is missing (no revenue tag, or
\* no operating-expense tag and no SG&A / R&D pair), condition_2_from_facts
\* returns condition_2 = false instead of raising.
C20_MissingConceptIsFalse ==
    (fn_out # <<>>
     /\ (ConceptMissing(REVENUE_TAGS)
         \/ (ConceptMissing(OPEX_TAGS)
             /\ (ConceptMissing(SGA_TAGS) \/ ConceptMissing(RD_TAGS))))) =>
        /\ ~fn_out[1].raised
        /\ ~fn_out[1].condition_2

\* The raw items of fn_in.raw that pass the filters of lines 96-106 and whose
\* period end is d, by index.
UsableAt(d) ==
    {i \in 1 .. Len(fn_in.raw) :
        /\ fn_in.raw[i].quarterish
        /\ fn_in.raw[i].val # <<>>
        /\ fn_in.raw[i].end = d}

\* C21: when several raw points of one tag share a period-end date, the
\* extracted series holds the value of the point whose filing date is most
\* recent, and of the last such point of the raw list when filing dates are
\* equal.
C21_KeepsLatestFiledLastOnTie ==
    (fn_out # <<>> /\ "raw" \in DOMAIN fn_in) =>
        \A k \in 1 .. Len(fn_out[1]) :
           LET d == fn_out[1][k][1]
               best == CHOOSE i \in UsableAt(d) :
                          \A j \in UsableAt(d) :
                             \/ fn_in.raw[j].filed < fn_in.raw[i].filed
                             \/ /\ fn_in.raw[j].filed = fn_in.raw[i].filed
                                /\ j <= i
           IN  fn_out[1][k][2] = fn_in.raw[best].val[1]

\* C22: the revenue-deceleration signal is false when the revenue series has
\* fewer than 3 points; otherwise it is true exactly when the growth rate of
\* the latest transition, (r3 - r2) / r2, is strictly less than the growth
\* rate of the one before, (r2 - r1) / r1 (revenues are not negative; a
\* growth rate over a zero revenue does not exist and does not trigger).
C22_RevenueDeceleration ==
    (Returned /\ fn_in.revenue # <<>>) =>
        LET n == Len(fn_in.revenue)
        IN  fn_out[1].revenue_deceleration_2q =
               IF n < 3 THEN FALSE
               ELSE LET r1 == fn_in.revenue[n - 2][2]
                        r2 == fn_in.revenue[n - 1][2]
                        r3 == fn_in.revenue[n][2]
                    IN  /\ r1 > 0
                        /\ r2 > 0
                        /\ (r3 - r2) * r1 < (r2 - r1) * r2

\* Revenue 1, 2, 2: growth 100% then 0%, and the signal is true.
C22_Witness ==
    /\ Returned
    /\ Len(fn_in.revenue) = 3
    /\ fn_in.revenue[1][2] = 1
    /\ fn_in.revenue[2][2] = 2
    /\ fn_in.revenue[3][2] = 2
    /\ fn_out[1].revenue_deceleration_2q

\* The period ends of a series, and its value at one of them.
EndsOf(series) == {series[i][1] : i \in 1 .. Len(series)}

ValueAt(series, d) ==
    series[CHOOSE i \in 1 .. Len(series) : series[i][1] = d][2]

\* The margin of period end d: profit of d over revenue of d.
MarginAt(d) == margin(ValueAt(fn_in.profit, d), ValueAt(fn_in.revenue, d))

\* C23: a margin pairs only values of the same period end: margin_failure is
\* what the margins of the last three period ends present in both the
\* revenue and the profit series give (each strictly below the one before),
\* and it is false when fewer than three period ends are shared.
C23_MarginsPairSameDate ==
    (Returned /\ fn_in.revenue # <<>>) =>
        LET dates == sorted(EndsOf(fn_in.revenue) \cap EndsOf(fn_in.profit))
            n == Len(dates)
        IN  fn_out[1].margin_failure_2q =
               IF n < 3 THEN FALSE
               ELSE /\ RatioLess(MarginAt(dates[n - 1]), MarginAt(dates[n - 2]))
                    /\ RatioLess(MarginAt(dates[n]), MarginAt(dates[n - 1]))

\* The value that the i-th item of the tag's USD list reports.
UsdValue(tag, i) == fn_in.facts[tag][i].val[1]

\* C24: condition_2_from_facts returns condition_2 = true whenever operating
\* expense strictly increased in each of the last two quarters and revenue
\* growth was strictly below operating-expense growth in each of those two
\* periods, on the period ends that the revenue and operating-expense
\* series share; it returns false otherwise.
C24_Condition2FromSeries ==
    (/\ fn_out # <<>>
     /\ "Revenues" \in DOMAIN fn_in.facts
     /\ "OperatingExpenses" \in DOMAIN fn_in.facts
     /\ fn_in.facts["Revenues"] # <<>>
     /\ fn_in.facts["OperatingExpenses"] # <<>>) =>
        LET n == MaxSeriesLen
            r(i) == UsdValue("Revenues", i)
            o(i) == UsdValue("OperatingExpenses", i)
        IN  /\ ~fn_out[1].raised
            /\ fn_out[1].condition_2 =
                  (/\ o(n) > o(n - 1)
                   /\ o(n - 1) > o(n - 2)
                   /\ (r(n) - r(n - 1)) * o(n - 1) < (o(n) - o(n - 1)) * r(n - 1)
                   /\ (r(n - 1) - r(n - 2)) * o(n - 2)
                         < (o(n - 1) - o(n - 2)) * r(n - 2))

(***************************************************************************)
(* features/condition3.py on a facts document (same shape as for           *)
(* condition2.py; _get_usd_series and _pick_series are the same code).      *)
(***************************************************************************)
CAPEX_TAGS == <<"PaymentsToAcquirePropertyPlantAndEquipment">>

RND_TAGS == <<"ResearchAndDevelopmentExpense">>

OCF_TAGS == <<"NetCashProvidedByUsedInOperatingActivities">>

Condition3Tags ==
    {"PaymentsToAcquirePropertyPlantAndEquipment",
     "ResearchAndDevelopmentExpense",
     "NetCashProvidedByUsedInOperatingActivities"}

AllCondition3TagsReported ==
    [PaymentsToAcquirePropertyPlantAndEquipment : UsdListsOver({1, 2}),
     ResearchAndDevelopmentExpense : UsdListsOver({1}),
     NetCashProvidedByUsedInOperatingActivities : UsdListsOver({-2, -1})]

Condition3Facts ==
    UNION {{[tag \in S |-> full[tag]] : full \in AllCondition3TagsReported} :
             S \in SUBSET Condition3Tags}

\* Lines 23-25: the values of the latest 8 points of the series. (The points
\* are those of quarterly_points called on the list of items.)
vals(series) ==
    LET pts == latest_n_quarters(quarterly_points_of_list(series), 8)
    IN  [i \in 1 .. Len(pts) |-> pts[i][2]]

\* Lines 27-28.
flat_or_up(v) ==
    Len(v) >= 3 /\ v[Len(v)] >= v[Len(v) - 1] /\ v[Len(v) - 1] >= v[Len(v) - 2]

\* Lines 30-31.
burn_persists(v) ==
    Len(v) >= 3 /\ v[Len(v)] <= v[Len(v) - 1] /\ v[Len(v) - 1] <= v[Len(v) - 2]

\* Lines 33-65; the KeyError of a missing capex or operating-cash-flow series
\* leaves the function, a missing R&D series is passed over (lines 43-47).
condition_3_on_facts(facts, revenue_deceleration_2q, margin_failure_2q) ==
    LET capex == pick_series(facts, CAPEX_TAGS)
        rnd == pick_series(facts, RND_TAGS)
        ocf == pick_series(facts, OCF_TAGS)
        rnd_vals == IF rnd.raised THEN <<>> ELSE vals(rnd.series)
    IN  IF capex.raised \/ ocf.raised
        THEN [raised |-> TRUE, condition_3 |-> FALSE]
        ELSE [raised |-> FALSE,
              condition_3 |->
                  condition_3_from_facts(flat_or_up(vals(capex.series)),
                                         flat_or_up(rnd_vals),
                                         burn_persists(vals(ocf.series)),
                                         revenue_deceleration_2q,
                                         margin_failure_2q)]

Condition3Init ==
    /\ fn_in \in [facts : Condition3Facts, revenue_deceleration_2q : BOOLEAN,
                  margin_failure_2q : BOOLEAN]
    /\ fn_out = <<>>
    /\ SystemIdle

Condition3 ==
    /\ fn_out = <<>>
    /\ fn_out' = <<condition_3_on_facts(fn_in.facts,
                                        fn_in.revenue_deceleration_2q,
                                        fn_in.margin_failure_2q)>>
    /\ UNCHANGED <<sm_vars, db_vars, run_vars, cc_vars, fn_in>>

SpecCondition3 == Condition3Init /\ [][Condition3]_vars

\* The values that the tag's USD list reports for the last three periods are
\* non-decreasing / non-increasing.
LastThreeNonDecreasing(tag) ==
    LET n == Len(fn_in.facts[tag])
    IN  /\ UsdValue(tag, n) >= UsdValue(tag, n - 1)
        /\ UsdValue(tag, n - 1) >= UsdValue(tag, n - 2)

LastThreeNonIncreasing(tag) ==
    LET n == Len(fn_in.facts[tag])
    IN  /\ UsdValue(tag, n) <= UsdValue(tag, n - 1)
        /\ UsdValue(tag, n - 1) <= UsdValue(tag, n - 2)

\* C25: condition_3 = discretionary_continues AND cash_burn_persists AND
\* no_slope_improvement: the last three capex values (or the last three R&D
\* values when R&D is reported) of the document are non-decreasing, the last
\* three operating-cash-flow values are non-increasing, and both
\* revenue_deceleration and margin_failure hold; in particular condition_3 is
\* true for a document whose series satisfy all three.
C25_Condition3FromSeries ==
    (/\ fn_out # <<>>
     /\ "PaymentsToAcquirePropertyPlantAndEquipment" \in DOMAIN fn_in.facts
     /\ "NetCashProvidedByUsedInOperatingActivities" \in DOMAIN fn_in.facts) =>
        /\ ~fn_out[1].raised
        /\ fn_out[1].condition_3 =
              (/\ \/ LastThreeNonDecreasing(
                         "PaymentsToAcquirePropertyPlantAndEquipment")
                  \/ /\ "ResearchAndDevelopmentExpense" \in DOMAIN fn_in.facts
                     /\ LastThreeNonDecreasing("ResearchAndDevelopmentExpense")
               /\ LastThreeNonIncreasing(
                      "NetCashProvidedByUsedInOperatingActivities")
               /\ fn_in.revenue_deceleration_2q
               /\ fn_in.margin_failure_2q)

(***************************************************************************)
(* cli/evaluate_once.py, lines 76-118: the condition 4 that a cycle uses,   *)
(* as a function of condition 1 and of what the fetches return.             *)
(***************************************************************************)
\* Lines 77-111: the guard of line 87, then the scan.
condition_4_of_cycle(c1, filings, fail_at) ==
    IF c1.condition_1
    THEN ScanFilings(filings, fail_at, c1.revenue_deceleration_2q,
                     c1.margin_failure_2q)
    ELSE ScanOutcome(Condition4Default, FALSE, 0)

ScanInit ==
    /\ \E revenue_missing \in BOOLEAN, rd \in BOOLEAN, mf \in BOOLEAN,
          olw \in BOOLEAN, filings \in FilingLists :
          \E fail_at \in 0 .. Len(filings) + 1 :
             fn_in = [c1 |-> condition_1_from_facts(revenue_missing, rd, mf,
                                                    olw),
                      filings |-> filings, fail_at |-> fail_at]
    /\ fn_out = <<>>
    /\ SystemIdle

Scan ==
    /\ fn_out = <<>>
    /\ fn_out' = <<condition_4_of_cycle(fn_in.c1, fn_in.filings,
                                        fn_in.fail_at)>>
    /\ UNCHANGED <<sm_vars, db_vars, run_vars, cc_vars, fn_in>>

SpecScan == ScanInit /\ [][Scan]_vars

\* The filings of the window whose text holds a lexicon keyword, in whatever
\* case, by index.
KeywordFilings ==
    {i \in 1 .. Len(fn_in.filings) :
        fn_in.filings[i] \in {"entering a new market", "A New Market"}}

NoSlopeImprovement ==
    fn_in.c1.revenue_deceleration_2q /\ fn_in.c1.margin_failure_2q

\* The number of fetches of a scan that stops at the first filing with a
\* keyword: the submissions list, then the texts up to that filing.
FetchesToFirstHit ==
    IF KeywordFilings = {} THEN Len(fn_in.filings) + 1
    ELSE 1 + CHOOSE i \in KeywordFilings : \A j \in KeywordFilings : i <= j

\* C26 as stated: the condition_4 that a cycle uses equals keyword_found AND
\* revenue_deceleration AND margin_failure, keyword_found being true exactly
\* when at least one 8-K of the window holds a lexicon keyword.
C26_Condition4IsKeywordAndSlope ==
    fn_out # <<>> =>
        fn_out[1].condition_4 = (KeywordFilings # {} /\ NoSlopeImprovement)

\* A fetch of the scan raises: the submissions list, or a filing text that
\* is fetched before any filing with a keyword was seen.
ScanFails ==
    /\ fn_in.c1.condition_1
    /\ fn_in.fail_at < FetchesToFirstHit

\* C26, amended: when condition_1 is true and no fetch of the scan fails,
\* condition_4 equals keyword_found AND revenue_deceleration AND
\* margin_failure, and the scan fetches the filings up to the first one with
\* a keyword and none after it; when a fetch fails, or condition_1 is false,
\* condition_4 is false.
C26_Condition4UnlessScanFails ==
    fn_out # <<>> =>
        IF ~fn_in.c1.condition_1
        THEN ~fn_out[1].condition_4 /\ fn_out[1].fetched = 0
        ELSE IF ScanFails
        THEN /\ ~fn_out[1].condition_4
             /\ fn_out[1].raised
             /\ fn_out[1].fetched = fn_in.fail_at + 1
        ELSE /\ fn_out[1].condition_4 =
                   (KeywordFilings # {} /\ NoSlopeImprovement)
             /\ fn_out[1].initiative_detected = (KeywordFilings # {})
             /\ ~fn_out[1].raised
             /\ fn_out[1].fetched = FetchesToFirstHit

\* Two filings, the first holds a keyword in another case than the lexicon's:
\* condition_4 is true and the second filing was not fetched.
C26_Witness ==
    /\ fn_out # <<>>
    /\ Len(fn_in.filings) = 2
    /\ fn_in.filings[1] = "A New Market"
    /\ fn_out[1].condition_4
    /\ fn_out[1].fetched = 2

\* The events recorded for company c, by their position in state_events.
EventsOf(c) ==
    {i \in 1 .. Len(state_events) : state_events[i].company_id = c}

\* The latest event of company c before position i; 0 when there is none.
EventBefore(c, i) ==
    IF \E j \in EventsOf(c) : j < i
    THEN CHOOSE j \in EventsOf(c) :
            j < i /\ \A k \in EventsOf(c) : k < i => k <= j
    ELSE 0

\* C27: after any sequence of batch cycles the persisted history of every
\* entity is consistent: its events form a chain (the first starts at
\* MONITOR, each later one starts at the new_state of the one before, and
\* every event changes the state), and its latest persisted state is the
\* new_state of its latest event (MONITOR, or none, when it has no event).
C27_HistoryIsConsistent ==
    NotRunning =>
        \A c \in Companies :
           /\ \A i \in EventsOf(c) :
                 /\ state_events[i].prev_state # state_events[i].new_state
                 /\ state_events[i].prev_state =
                       IF EventBefore(c, i) = 0 THEN "MONITOR"
                       ELSE state_events[EventBefore(c, i)].new_state
           /\ get_latest_state(model_state, c) \in
                 IF EventsOf(c) = {} THEN {"NONE", "MONITOR"}
                 ELSE {state_events[
                          EventBefore(c, Len(state_events) + 1)].new_state}

\* C28: a single evaluation never skips a level: next_state returns TRACK
\* only when prev_state is MONITOR or TRACK and TERMINAL only when prev_state
\* is TRACK or TERMINAL, so from MONITOR an evaluation never returns TERMINAL,
\* even with all four flags true.
C28_NoLevelSkipped ==
    Applied =>
        /\ sm_out = "TRACK" => sm_inp.prev_state \in {"MONITOR", "TRACK"}
        /\ sm_out = "TERMINAL" => sm_inp.prev_state \in {"TRACK", "TERMINAL"}

\* From MONITOR with all four flags true the evaluation returns TRACK.
C28_Witness ==
    /\ Applied /\ sm_inp.in_scope /\ sm_inp.has_sufficient_data
    /\ sm_inp.prev_state = "MONITOR" /\ AllFlags(sm_inp)
    /\ sm_out = "TRACK"

\* next_state on the inputs of the current evaluation, from prior state s.
NextFrom(s) == next_state([sm_inp EXCEPT !.prev_state = s])

\* C29: under constant inputs, feeding the result of next_state back as
\* prev_state reaches a fixed point after at most two applications, from
\* every starting state: the result of the second application is returned by
\* every further one.
C29_FixedPointInTwo ==
    Applied =>
        /\ sm_out = NextFrom(sm_inp.prev_state)
        /\ NextFrom(NextFrom(sm_out)) = NextFrom(sm_out)

\* From MONITOR with all four flags true: TRACK, then TERMINAL, which stays.
C29_Witness ==
    /\ Applied /\ sm_inp.prev_state = "MONITOR"
    /\ sm_out = "TRACK"
    /\ NextFrom(sm_out) = "TERMINAL"
    /\ NextFrom("TERMINAL") = "TERMINAL"

\* C30: in the batch the flags are not independent: condition_3 or
\* condition_4 true implies that revenue_deceleration and margin_failure are
\* both true, hence condition_1; so every escalation that the batch computes
\* and records (MONITOR -> TRACK, TRACK -> TERMINAL) happens in a cycle where
\* both sub-signals of condition 1 are true.
C30_EscalationNeedsBothSignals ==
    /\ (loc.flags.condition_3 \/ loc.flags.condition_4) =>
          loc.rd /\ loc.mf /\ loc.flags.condition_1
    /\ (/\ run_pc \in {"write", "notify", "event"}
        /\ loc.prev \in {"MONITOR", "TRACK"}
        /\ Rank(loc.new_state) > Rank(loc.prev)) =>
          loc.rd /\ loc.mf

\* The batch is about to record TRACK -> TERMINAL.
C30_Witness ==
    /\ run_pc = "event"
    /\ loc.prev = "TRACK"
    /\ loc.new_state = "TERMINAL"
    /\ loc.flags.condition_3
    /\ loc.rd /\ loc.mf

====
